---- MODULE Spec2Model ----
(***************************************************************************)
(* Appointment scheduling of docnet_backend: the Appointment model and its *)
(* meeting room, the create/update serializers, the AppointmentViewSet     *)
(* handlers and the bulk cancel of the admin site.                         *)
(*                                                                         *)
(* Instants are small naturals; a text value is a sequence of characters   *)
(* over {"n", "r", "i", "\n"}; a null column is the value Null.             *)
(***************************************************************************)
EXTENDS Integers, Sequences, FiniteSets, TLC

\* ------------------------------------------------------------------ bounds

\* Rows ever inserted: in the scheduling specifications, and in the
\* specification of one appointment's life.
MaxAppts == 2
MaxLife == 1
MaxTime == 2
MaxTextLen == 4

\* Review rows ever inserted, and review creations in flight at once.
MaxReviews == 3
MaxReviewing == 2

\* Contact rows ever inserted, and contact creations in flight at once.
MaxContacts == 3
MaxAdding == 2

\* Events ever sent to the chat room's group.
MaxCasts == 2

\* ------------------------------------------------------------- directories

\* A Doctor / Patient / Hospital / AdminProfile row is named by the user it
\* belongs to (each profile has a OneToOneField to User).
DoctorUsers == {"d1", "d2"}
PatientUsers == {"p1", "p2"}
HospitalUsers == {"h1"}
AdminUsers == {"a1"}
Users == DoctorUsers \cup PatientUsers \cup HospitalUsers \cup AdminUsers

\* A user that owns no profile (role is "patient" by default) and is not
\* staff, and the caller of a request that carries no credentials.
OtherUsers == {"o1"}
Anonymous == "anon"
Callers == Users \cup OtherUsers \cup {Anonymous}

\* User.is_staff
StaffUsers == AdminUsers

\* User.role
Role(u) ==
    IF u \in DoctorUsers THEN "doctor"
    ELSE IF u \in PatientUsers \cup OtherUsers THEN "patient"
    ELSE IF u \in HospitalUsers THEN "hospital"
    ELSE "admin"

\* Doctor.hospital (nullable foreign key): d1 works at h1, d2 at no hospital.
HospitalOf(d) == IF d = "d1" THEN "h1" ELSE "none"

\* User.profile: getattr(self, f"{role}_profile", None); every user of the
\* directories above owns the profile of its role, which is named by the user.
Profile(u) == IF u \in Users THEN u ELSE "none"

\* Doctor.user, Patient.user: the account a profile belongs to.
UserOf(profile) == profile

\* ------------------------------------------------------------------ values

\* Python's None for a reference or choice (a key missing from a request, a
\* null foreign key); Null and Absent are the same for a text.
None == "none"
Null == <<"null">>
Absent == <<"absent">>
NL == "\n"
Times == 0..MaxTime

SCHEDULED == "scheduled"
CONFIRMED == "confirmed"
IN_PROGRESS == "in_progress"
COMPLETED == "completed"
CANCELLED == "cancelled"
NO_SHOW == "no_show"
RESCHEDULED == "rescheduled"

AppointmentStatus ==
    {SCHEDULED, CONFIRMED, IN_PROGRESS, COMPLETED, CANCELLED, NO_SHOW, RESCHEDULED}

\* Python truthiness of a nullable text column or request value.
Truthy(t) == t # Null /\ t # Absent /\ t # <<>>

\* f"{old}\n\n{new}"
Joined(old, new) == old \o <<NL, NL>> \o new

\* The actors a cancellation is attributed to.
CancelledBy == {"patient", "doctor", "system"}

VARIABLES
    appts,     \* the appointment table: id -> row
    nextId,    \* the next fresh identifier (uuid4 never repeats)
    now,       \* the server clock, timezone.now()
    pending,   \* creation requests validated and not yet saved
    meets,     \* the meeting-room table: the rooms in the order of creation
    creating,  \* the creation that is between its INSERT and its response
    last,      \* the response to the latest request
    reviews,      \* the review tables: id -> row (doctor and hospital reviews)
    nextReview,   \* the next fresh review identifier
    reviewing,    \* review creations validated and not yet saved
    contacts,     \* the emergency-contact table: id -> row
    nextContact,  \* the next fresh contact identifier
    adding,       \* contact creations validated and not yet saved
    conns,        \* the chat consumers: connection -> its fields
    group,        \* the connections in the room's channel-layer group
    messages,     \* the Message rows of the room, in the order of saving
    casts,        \* the events sent to the room's group, in order
    online        \* UserStatus.online of each user

reviewVars == <<reviews, nextReview, reviewing>>
contactVars == <<contacts, nextContact, adding>>
chatVars == <<conns, group, messages, casts, online>>
apptVars == <<appts, nextId, now, pending, meets, creating>>

\* What the appointment and meeting handlers never touch.
elsewhere == <<reviewVars, contactVars, chatVars>>

vars == <<appts, nextId, now, pending, meets, creating, last,
          reviews, nextReview, reviewing, contacts, nextContact, adding,
          conns, group, messages, casts, online>>

Ids == 1..MaxAppts

\* A response: the operation answered, the outcome, and the appointments a
\* list returns.
Resp(op, code) == [op |-> op, code |-> code, rows |-> {}]

\* -------------------------------------------------------------- Meet model

\* A null Appointment.meet; the rooms are numbered from 1.
NoMeet == 0

\* Meet.objects.create(): a room without host and without members.
NewMeet == [host |-> None, members |-> <<>>]

\* The users that are members of a room.
Members(m) == {m.members[k] : k \in DOMAIN m.members}

\* An add that only fills an empty room.
AddFirstMember(m, user) ==
    IF m.members # <<>> THEN m
    ELSE [m EXCEPT !.members = Append(@, user)]

\* meet.members.add(user): one more row of the membership table, unless the
\* user is a member already.
AddMember(m, user) ==
    IF user \in Members(m) THEN m
    ELSE [m EXCEPT !.members = Append(@, user)]

\* ------------------------------------------------------- Appointment model

\* Appointment.is_past
is_past(a, t) == a.end < t

\* A can_cancel that forgets the end time.
can_cancel_late(a, t) == a.status \in {SCHEDULED, CONFIRMED}

\* Appointment.can_cancel
can_cancel(a, t) == a.status \in {SCHEDULED, CONFIRMED} /\ ~is_past(a, t)

\* An overlap query that also counts an appointment that ends when the
\* candidate starts, or starts when it ends.
OverlappingClosed(A, d, s, e) ==
    \E i \in DOMAIN A :
        /\ A[i].doctor = d
        /\ A[i].start <= e
        /\ A[i].end >= s
        /\ A[i].status \in {SCHEDULED, CONFIRMED, IN_PROGRESS}

\* The overlap query of AppointmentCreateSerializer.validate:
\* filter(doctor=d, start__lt=e, end__gt=s, status__in=[...]).exists()
Overlapping(A, d, s, e) ==
    \E i \in DOMAIN A :
        /\ A[i].doctor = d
        /\ A[i].start < e
        /\ A[i].end > s
        /\ A[i].status \in {SCHEDULED, CONFIRMED, IN_PROGRESS}

\* ------------------------------------------------------------------ create

\* The body of a POST /appointments/ request.
CreateRequests ==
    [patient : PatientUsers \cup {None},
     doctor : DoctorUsers \cup {None},
     start : Times,
     end : Times,
     notes : {Absent, <<"n">>}]

\* A validation that asks every caller for one reference only.
ValidateCreateOneEnough(A, t, u, req) ==
    IF req.doctor = None /\ req.patient = None THEN "one_required"
    ELSE IF req.end <= req.start THEN "end_before_start"
    ELSE IF req.start < t THEN "in_the_past"
    ELSE LET d == IF Role(u) = "doctor" THEN Profile(u) ELSE req.doctor
         IN  IF Overlapping(A, d, req.start, req.end) THEN "doctor_unavailable"
             ELSE "ok"

\* A validation that does not look at the clock.
ValidateCreateAnyStart(A, t, u, req) ==
    IF req.doctor = None /\ req.patient = None THEN "one_required"
    ELSE IF Role(u) = "doctor" /\ req.patient = None THEN "patient_required"
    ELSE IF Role(u) = "patient" /\ req.doctor = None THEN "doctor_required"
    ELSE IF Role(u) \notin {"doctor", "patient"}
            /\ (req.doctor = None \/ req.patient = None) THEN "both_required"
    ELSE IF req.end <= req.start THEN "end_before_start"
    ELSE LET d == IF Role(u) = "doctor" THEN Profile(u) ELSE req.doctor
         IN  IF Overlapping(A, d, req.start, req.end) THEN "doctor_unavailable"
             ELSE "ok"

\* AppointmentCreateSerializer.validate: "ok" or the error raised, in the
\* order of the checks.
ValidateCreate(A, t, u, req) ==
    IF req.doctor = None /\ req.patient = None THEN "one_required"
    ELSE IF Role(u) = "doctor" /\ req.patient = None THEN "patient_required"
    ELSE IF Role(u) = "patient" /\ req.doctor = None THEN "doctor_required"
    ELSE IF Role(u) \notin {"doctor", "patient"}
            /\ (req.doctor = None \/ req.patient = None) THEN "both_required"
    ELSE IF req.end <= req.start THEN "end_before_start"
    ELSE IF req.start < t THEN "in_the_past"
    ELSE LET d == IF Role(u) = "doctor" THEN Profile(u) ELSE req.doctor
         IN  IF Overlapping(A, d, req.start, req.end) THEN "doctor_unavailable"
             ELSE "ok"

\* Validated data that keep the references of the request.
ValidatedDataAsSent(u, req) ==
    [patient |-> req.patient,
     doctor |-> req.doctor,
     start |-> req.start,
     end |-> req.end,
     notes |-> IF req.notes = Absent THEN Null ELSE req.notes]

\* The validated data handed to create(): the caller's own profile replaces
\* the doctor (doctor caller) or the patient (patient caller).
ValidatedData(u, req) ==
    [patient |-> IF Role(u) = "patient" THEN Profile(u) ELSE req.patient,
     doctor |-> IF Role(u) = "doctor" THEN Profile(u) ELSE req.doctor,
     start |-> req.start,
     end |-> req.end,
     notes |-> IF req.notes = Absent THEN Null ELSE req.notes]

\* The row that ModelSerializer.create and super().save() insert.
NewAppointment(data) ==
    [patient |-> data.patient,
     doctor |-> data.doctor,
     status |-> SCHEDULED,
     start |-> data.start,
     end |-> data.end,
     notes |-> data.notes,
     meet |-> NoMeet,
     technical_issues_reported |-> Null,
     cancellation_reason |-> Null,
     cancelled_by |-> None]

\* Appointment.create_meet_instance up to self.meet = meet: a new room whose
\* members are the doctor's and the patient's users, added in this order.
MeetInstance(a) == AddMember(AddMember(NewMeet, UserOf(a.doctor)), UserOf(a.patient))

\* permission_classes = [IsAuthenticated]
IsAuthenticated(u) == u # Anonymous

\* No creation is between its INSERT and its response.
Idle == [id |-> 0, meet |-> NoMeet, step |-> "idle"]

\* Appointment.save() of a new row that runs to its end: the row is
\* inserted, its room is created and filled, and the room is stored on it.
SaveNew(data) ==
    /\ appts' = appts @@
           (nextId :> [NewAppointment(data) EXCEPT !.meet = Len(meets) + 1])
    /\ meets' = Append(meets, MeetInstance(NewAppointment(data)))
    /\ nextId' = nextId + 1

\* POST /appointments/ handled without any other request in between and
\* without a failure after validation; cap bounds the rows ever inserted.
Create(cap, u, req) ==
    /\ nextId <= cap
    /\ pending = {}
    /\ creating = Idle
    /\ IF ~IsAuthenticated(u)
       THEN /\ last' = Resp("create", "not_authenticated")
            /\ UNCHANGED <<appts, nextId, meets>>
       ELSE LET code == ValidateCreate(appts, now, u, req)
            IN  /\ last' = Resp("create", code)
                /\ IF code = "ok"
                   THEN SaveNew(ValidatedData(u, req))
                   ELSE UNCHANGED <<appts, nextId, meets>>
    /\ UNCHANGED <<now, pending, creating, elsewhere>>

\* POST /appointments/ when other requests run meanwhile. No transaction or
\* lock spans serializer.is_valid() and serializer.save(): the overlap query
\* reads the table at validation, the INSERT happens at save.
CreateValidate(cap, u, req) ==
    /\ nextId + Cardinality(pending) <= cap
    /\ LET code == ValidateCreate(appts, now, u, req)
       IN  IF code = "ok"
           THEN /\ pending' = pending \cup {[by |-> u, data |-> ValidatedData(u, req)]}
                /\ UNCHANGED last
           ELSE /\ last' = Resp("create", code)
                /\ UNCHANGED pending
    /\ UNCHANGED <<appts, nextId, now, meets, creating, elsewhere>>

CreateSave(r) ==
    /\ r \in pending
    /\ SaveNew(r.data)
    /\ pending' = pending \ {r}
    /\ last' = Resp("create", "ok")
    /\ UNCHANGED <<now, creating, elsewhere>>

\* POST /appointments/ statement by statement. Appointment.save() runs
\* super().save() (INSERT), Meet.objects.create(), members.add(doctor.user),
\* members.add(patient.user) and self.save() (UPDATE of the room reference),
\* each committed on its own: no transaction spans them. CreateBegin is the
\* validation and the INSERT.
CreateBegin(cap, u, req) ==
    /\ nextId <= cap
    /\ pending = {}
    /\ creating = Idle
    /\ LET code == ValidateCreate(appts, now, u, req)
       IN  IF code = "ok"
           THEN /\ appts' = appts @@ (nextId :> NewAppointment(ValidatedData(u, req)))
                /\ nextId' = nextId + 1
                /\ creating' = [id |-> nextId, meet |-> NoMeet, step |-> "inserted"]
                /\ UNCHANGED last
           ELSE /\ last' = Resp("create", code)
                /\ UNCHANGED <<appts, nextId, creating>>
    /\ UNCHANGED <<now, pending, meets, elsewhere>>

\* The next statement of create_meet_instance; the last one stores the room
\* on the row and the request is answered 201.
CreateStep ==
    /\ creating.step # "idle"
    /\ LET a == appts[creating.id]
       IN  IF creating.step = "inserted"
           THEN /\ meets' = Append(meets, NewMeet)
                /\ creating' = [creating EXCEPT !.meet = Len(meets) + 1,
                                                !.step = "meet"]
                /\ UNCHANGED <<appts, last>>
           ELSE IF creating.step = "meet"
           THEN /\ meets' = [meets EXCEPT
                                ![creating.meet] = AddMember(@, UserOf(a.doctor))]
                /\ creating' = [creating EXCEPT !.step = "doctor_added"]
                /\ UNCHANGED <<appts, last>>
           ELSE IF creating.step = "doctor_added"
           THEN /\ meets' = [meets EXCEPT
                                ![creating.meet] = AddMember(@, UserOf(a.patient))]
                /\ creating' = [creating EXCEPT !.step = "patient_added"]
                /\ UNCHANGED <<appts, last>>
           ELSE /\ appts' = [appts EXCEPT ![creating.id].meet = creating.meet]
                /\ creating' = Idle
                /\ last' = Resp("create", "ok")
                /\ UNCHANGED meets
    /\ UNCHANGED <<nextId, now, pending, elsewhere>>

\* The next statement of create_meet_instance raises (the database or the
\* connection fails): the request is answered 500 and what the statements
\* before it committed stays.
CreateFail ==
    /\ creating.step # "idle"
    /\ creating' = Idle
    /\ last' = Resp("create", "server_error")
    /\ UNCHANGED <<appts, nextId, now, pending, meets, elsewhere>>

\* ------------------------------------------------------------ permissions

\* utils.permissions.IsDoctor.has_permission
IsDoctor(u) == Role(u) = "doctor" /\ u \in DoctorUsers

\* A queryset that shows a hospital every appointment.
InScopeHospitalAll(u, a) ==
    IF u \in DoctorUsers THEN a.doctor = Profile(u)
    ELSE IF u \in PatientUsers THEN a.patient = Profile(u)
    ELSE u \in HospitalUsers \cup AdminUsers \cup StaffUsers

\* AppointmentViewSet.get_queryset: the rows the caller may address.
InScope(u, a) ==
    IF u \in DoctorUsers THEN a.doctor = Profile(u)
    ELSE IF u \in PatientUsers THEN a.patient = Profile(u)
    ELSE IF u \in HospitalUsers THEN HospitalOf(a.doctor) = Profile(u)
    ELSE IF u \in AdminUsers THEN TRUE
    ELSE u \in StaffUsers

\* A get_object() over the whole table.
FoundAnyone(u, i) == i \in DOMAIN appts

\* get_object(): the row, or 404 when the caller's queryset has no such id.
Found(u, i) == i \in DOMAIN appts /\ InScope(u, appts[i])

\* A request that changes nothing but the response.
Refuse(op, code) ==
    /\ last' = Resp(op, code)
    /\ UNCHANGED <<appts, nextId, now, pending, meets, creating, elsewhere>>

\* A request that rewrites one row (appointment.save()).
Save(op, i, row) ==
    /\ appts' = [appts EXCEPT ![i] = row]
    /\ last' = Resp(op, "ok")
    /\ UNCHANGED <<nextId, now, pending, meets, creating, elsewhere>>

\* ---------------------------------------------------------- generic update

NoTime == 0 - 1

\* The body of a PUT/PATCH /appointments/{id}/ request: the fields of
\* AppointmentUpdateSerializer.Meta.fields this model carries, each optional.
UpdatePayloads ==
    [status : AppointmentStatus \cup {None},
     start : Times \cup {NoTime},
     end : Times \cup {NoTime},
     notes : {Absent, <<"n">>},
     technical_issues_reported : {Absent, <<"i">>},
     cancellation_reason : {Absent, <<"r">>},
     cancelled_by : CancelledBy \cup {None}]

\* Payloads without technical issues and without the cancellation fields,
\* with statuses S, times T and notes N.
Plain(S, T, N) ==
    [status : S, start : T, end : T, notes : N,
     technical_issues_reported : {Absent},
     cancellation_reason : {Absent},
     cancelled_by : {None}]

\* Payloads that leave the schedule alone, and payloads that leave the notes
\* alone and carry a status or times, not both.
LifePayloads == Plain(AppointmentStatus \cup {None}, {NoTime}, {Absent, <<"n">>})
SchedPayloads ==
    Plain({None}, Times \cup {NoTime}, {Absent})
        \cup Plain(AppointmentStatus, {NoTime}, {Absent})

\* Payloads that leave the schedule and the notes alone and carry any of a
\* status, technical issues, and a cancellation by the doctor with its reason.
AccessPayloads ==
    [status : AppointmentStatus \cup {None},
     start : {NoTime}, end : {NoTime}, notes : {Absent},
     technical_issues_reported : {Absent, <<"i">>},
     cancellation_reason : {Absent},
     cancelled_by : {None}]
    \cup
    [status : AppointmentStatus \cup {None},
     start : {NoTime}, end : {NoTime}, notes : {Absent},
     technical_issues_reported : {Absent, <<"i">>},
     cancellation_reason : {<<"r">>},
     cancelled_by : {"doctor"}]

\* allowed_transitions of AppointmentUpdateSerializer.validate_status
allowed_transitions ==
    [s \in {SCHEDULED, CONFIRMED, IN_PROGRESS} |->
        IF s = SCHEDULED THEN {CONFIRMED, CANCELLED, RESCHEDULED}
        ELSE IF s = CONFIRMED THEN {IN_PROGRESS, CANCELLED, NO_SHOW}
        ELSE {COMPLETED}]

\* AppointmentUpdateSerializer.validate_status: TRUE when value is returned,
\* FALSE when ValidationError is raised.
validate_status(current_status, value) ==
    IF current_status \in DOMAIN allowed_transitions
    THEN value \in allowed_transitions[current_status]
    ELSE TRUE

\* ModelSerializer.update: every field of the payload is set on the row.
Updated(a, p) ==
    [a EXCEPT
        !.status = IF p.status = None THEN @ ELSE p.status,
        !.start = IF p.start = NoTime THEN @ ELSE p.start,
        !.end = IF p.end = NoTime THEN @ ELSE p.end,
        !.notes = IF p.notes = Absent THEN @ ELSE p.notes,
        !.technical_issues_reported =
            IF p.technical_issues_reported = Absent THEN @
            ELSE p.technical_issues_reported,
        !.cancellation_reason =
            IF p.cancellation_reason = Absent THEN @ ELSE p.cancellation_reason,
        !.cancelled_by = IF p.cancelled_by = None THEN @ ELSE p.cancelled_by]

\* An update that checks the transition from the stored status to itself
\* when the payload carries no status.
UpdateChecksAlways(u, i, P) ==
    IF ~IsAuthenticated(u) THEN Refuse("update", "not_authenticated")
    ELSE IF ~IsDoctor(u) THEN Refuse("update", "forbidden")
    ELSE IF ~Found(u, i) THEN Refuse("update", "not_found")
    ELSE \E p \in P :
            IF ~validate_status(appts[i].status,
                                IF p.status = None THEN appts[i].status ELSE p.status)
            THEN Refuse("update", "bad_transition")
            ELSE Save("update", i, Updated(appts[i], p))

\* PUT/PATCH /appointments/{id}/ (update, partial_update).
Update(u, i, P) ==
    IF ~IsAuthenticated(u) THEN Refuse("update", "not_authenticated")
    ELSE IF ~IsDoctor(u) THEN Refuse("update", "forbidden")
    ELSE IF ~Found(u, i) THEN Refuse("update", "not_found")
    ELSE \E p \in P :
            IF p.status # None /\ ~validate_status(appts[i].status, p.status)
            THEN Refuse("update", "bad_transition")
            ELSE Save("update", i, Updated(appts[i], p))

\* GET /appointments/ (list): the rows of the caller's queryset.
List(u) ==
    IF ~IsAuthenticated(u) THEN Refuse("list", "not_authenticated")
    ELSE /\ last' = [op |-> "list", code |-> "ok",
                     rows |-> {i \in DOMAIN appts : InScope(u, appts[i])}]
         /\ UNCHANGED <<appts, nextId, now, pending, meets, creating, elsewhere>>

\* GET /appointments/{id}/ (retrieve).
Retrieve(u, i) ==
    IF ~IsAuthenticated(u) THEN Refuse("retrieve", "not_authenticated")
    ELSE IF ~Found(u, i) THEN Refuse("retrieve", "not_found")
    ELSE Refuse("retrieve", "ok")

\* DELETE /appointments/{id}/ (destroy).
Destroy(u, i) ==
    IF ~IsAuthenticated(u) THEN Refuse("destroy", "not_authenticated")
    ELSE IF ~IsDoctor(u) THEN Refuse("destroy", "forbidden")
    ELSE IF ~Found(u, i) THEN Refuse("destroy", "not_found")
    ELSE /\ appts' = [j \in DOMAIN appts \ {i} |-> appts[j]]
         /\ last' = Resp("destroy", "ok")
         /\ UNCHANGED <<nextId, now, pending, meets, creating, elsewhere>>

\* ----------------------------------------------------------- named actions

\* A confirm that also accepts an appointment that is already confirmed.
ConfirmAgain(u, i) ==
    IF ~IsAuthenticated(u) THEN Refuse("confirm", "not_authenticated")
    ELSE IF ~Found(u, i) THEN Refuse("confirm", "not_found")
    ELSE IF appts[i].status \notin {SCHEDULED, CONFIRMED}
    THEN Refuse("confirm", "bad_status")
    ELSE Save("confirm", i, [appts[i] EXCEPT !.status = CONFIRMED])

\* POST /appointments/{id}/confirm/
Confirm(u, i) ==
    IF ~IsAuthenticated(u) THEN Refuse("confirm", "not_authenticated")
    ELSE IF ~Found(u, i) THEN Refuse("confirm", "not_found")
    ELSE IF appts[i].status # SCHEDULED THEN Refuse("confirm", "bad_status")
    ELSE Save("confirm", i, [appts[i] EXCEPT !.status = CONFIRMED])

\* An identity check that lets every caller through.
AssignedAnyone(u, a) == TRUE

\* The identity check of start_appointment and complete_appointment.
AssignedDoctor(u, a) == u \in DoctorUsers /\ a.doctor = Profile(u)

\* POST /appointments/{id}/start/
Start(u, i) ==
    IF ~IsAuthenticated(u) THEN Refuse("start", "not_authenticated")
    ELSE IF ~Found(u, i) THEN Refuse("start", "not_found")
    ELSE IF ~AssignedDoctor(u, appts[i]) THEN Refuse("start", "forbidden")
    ELSE IF appts[i].status # CONFIRMED THEN Refuse("start", "bad_status")
    ELSE Save("start", i, [appts[i] EXCEPT !.status = IN_PROGRESS])

\* Notes that replace the stored notes instead of being appended to them.
CompletedNotesReplace(old, notes) == IF Truthy(notes) THEN notes ELSE old

\* The notes of a completed appointment: request.data.get("notes", "")
\* appended to the stored notes.
CompletedNotes(old, notes) ==
    IF Truthy(notes)
    THEN IF Truthy(old) THEN Joined(old, notes) ELSE notes
    ELSE old

\* POST /appointments/{id}/complete/
Complete(u, i, notes) ==
    IF ~IsAuthenticated(u) THEN Refuse("complete", "not_authenticated")
    ELSE IF ~Found(u, i) THEN Refuse("complete", "not_found")
    ELSE IF ~AssignedDoctor(u, appts[i]) THEN Refuse("complete", "forbidden")
    ELSE IF appts[i].status # IN_PROGRESS THEN Refuse("complete", "bad_status")
    ELSE /\ Len(CompletedNotes(appts[i].notes, notes)) <= MaxTextLen
         /\ Save("complete", i,
                 [appts[i] EXCEPT !.notes = CompletedNotes(@, notes),
                                  !.status = COMPLETED])

\* AppointmentCancelSerializer: cancellation_reason is a required CharField
\* that may not be blank.
ValidCancel(reason) == reason # Absent /\ reason # <<>>

\* POST /appointments/{id}/cancel/
Cancel(u, i, reason) ==
    IF ~IsAuthenticated(u) THEN Refuse("cancel", "not_authenticated")
    ELSE IF ~Found(u, i) THEN Refuse("cancel", "not_found")
    ELSE IF ~can_cancel(appts[i], now) THEN Refuse("cancel", "cannot_cancel")
    ELSE IF ~ValidCancel(reason) THEN Refuse("cancel", "reason_required")
    ELSE Save("cancel", i,
              [appts[i] EXCEPT !.status = CANCELLED,
                               !.cancellation_reason = reason,
                               !.cancelled_by = Role(u)])

\* Issues that replace the stored ones.
ReportedIssuesReplace(old, issue) == issue

\* The technical issues of an appointment after one more is reported.
ReportedIssues(old, issue) == IF Truthy(old) THEN Joined(old, issue) ELSE issue

\* POST /appointments/{id}/report-issue/
ReportIssue(u, i, issue) ==
    IF ~IsAuthenticated(u) THEN Refuse("report_issue", "not_authenticated")
    ELSE IF ~Found(u, i) THEN Refuse("report_issue", "not_found")
    ELSE IF ~Truthy(issue) THEN Refuse("report_issue", "issue_required")
    ELSE /\ Len(ReportedIssues(appts[i].technical_issues_reported, issue)) <= MaxTextLen
         /\ Save("report_issue", i,
                 [appts[i] EXCEPT
                     !.technical_issues_reported = ReportedIssues(@, issue)])

\* AppointmentAdmin.cancel_appointments on the selected rows Q: the scheduled
\* and confirmed ones become cancelled by the system.
AdminCancelAppointments(Q) ==
    /\ appts' = [i \in DOMAIN appts |->
                    IF i \in Q /\ appts[i].status \in {SCHEDULED, CONFIRMED}
                    THEN [appts[i] EXCEPT !.status = CANCELLED,
                                          !.cancelled_by = "system"]
                    ELSE appts[i]]
    /\ last' = Resp("admin_cancel", "ok")
    /\ UNCHANGED <<nextId, now, pending, meets, creating, elsewhere>>

\* The rooms a request may name: those that exist and those that do not yet.
RoomIds == 1..MaxAppts

\* GET /meet/{meet_id}/: the details of a room, for its members.
MeetDetail(u, m) ==
    IF ~IsAuthenticated(u) THEN Refuse("meet_detail", "not_authenticated")
    ELSE IF m \notin DOMAIN meets THEN Refuse("meet_detail", "not_found")
    ELSE IF u \notin Members(meets[m]) THEN Refuse("meet_detail", "forbidden")
    ELSE Refuse("meet_detail", "ok")

\* A token for whoever asks.
MeetTokenAnyone(u, m) ==
    IF ~IsAuthenticated(u) THEN Refuse("meet_token", "not_authenticated")
    ELSE IF m \notin DOMAIN meets THEN Refuse("meet_token", "not_found")
    ELSE Refuse("meet_token", "ok")

\* POST /meet/token/ with the channel name of room m: a token for the
\* caller, when the caller is a member of the room.
MeetToken(u, m) ==
    IF ~IsAuthenticated(u) THEN Refuse("meet_token", "not_authenticated")
    ELSE IF m \notin DOMAIN meets THEN Refuse("meet_token", "not_found")
    ELSE IF u \notin Members(meets[m]) THEN Refuse("meet_token", "forbidden")
    ELSE Refuse("meet_token", "ok")

\* The clock advances.
Tick ==
    /\ now < MaxTime
    /\ now' = now + 1
    /\ UNCHANGED <<appts, nextId, pending, meets, creating, last, elsewhere>>

\* The websocket connections to the one chat room of the model.
Conns == {"c1", "c2"}

\* ChatConsumer.__init__: a consumer before connect(); reply is the latest
\* frame the consumer sent to its own socket.
NewConsumer == [open |-> FALSE, authenticated |-> FALSE, user |-> None,
                reply |-> None]

Init ==
    /\ appts = <<>>
    /\ nextId = 1
    /\ now = 0
    /\ pending = {}
    /\ meets = <<>>
    /\ creating = Idle
    /\ last = Resp("none", "none")
    /\ reviews = <<>>
    /\ nextReview = 1
    /\ reviewing = <<>>
    /\ contacts = <<>>
    /\ nextContact = 1
    /\ adding = <<>>
    /\ conns = [c \in Conns |-> NewConsumer]
    /\ group = {}
    /\ messages = <<>>
    /\ casts = <<>>
    /\ online = [u \in Users |-> FALSE]

\* What a request may carry as notes, as a cancellation reason or as an
\* issue.
NotesInputs == {Absent, <<>>, <<"n">>}
ReasonInputs == {Absent, <<>>, <<"r">>}
IssueInputs == {Absent, <<>>, <<"i">>}

\* One appointment's life: every caller, every operation, every text.
Next ==
    \/ \E u \in Users, req \in CreateRequests : Create(MaxLife, u, req)
    \/ \E u \in Users, i \in Ids : Update(u, i, LifePayloads)
    \/ \E u \in Users, i \in Ids : Destroy(u, i)
    \/ \E u \in Users, i \in Ids : Confirm(u, i)
    \/ \E u \in Users, i \in Ids : Start(u, i)
    \/ \E u \in Users, i \in Ids, notes \in NotesInputs : Complete(u, i, notes)
    \/ \E u \in Users, i \in Ids, reason \in ReasonInputs : Cancel(u, i, reason)
    \/ Tick

Spec == Init /\ [][Next]_vars

\* The schedule of two appointments: the operations that write the doctor,
\* the interval and the status of a row, called by the doctors.
SchedCreateRequests == {r \in CreateRequests : r.patient = "p1" /\ r.notes = Absent}

NextSched ==
    \/ \E u \in DoctorUsers \cup AdminUsers, req \in SchedCreateRequests :
            Create(MaxAppts, u, req)
    \/ \E u \in DoctorUsers, i \in Ids : Update(u, i, SchedPayloads)
    \/ Tick

SpecSched == Init /\ [][NextSched]_vars

\* Creation requests of several callers in flight at once.
ConcCallers == {"p1", "p2", "d1", "a1"}

NextConc ==
    \/ \E u \in ConcCallers, req \in SchedCreateRequests :
            CreateValidate(MaxAppts, u, req)
    \/ \E r \in pending : CreateSave(r)
    \/ Tick

SpecConc == Init /\ [][NextConc]_vars

\* Who may read and write an appointment: every caller, with or without
\* profile or credentials, and every operation on one appointment of patient
\* p1 that lasts one instant.
AccessCreateRequests == {r \in SchedCreateRequests : r.end = r.start + 1}

NextAccess ==
    \/ \E u \in DoctorUsers \cup AdminUsers \cup {Anonymous},
          req \in AccessCreateRequests : Create(MaxLife, u, req)
    \/ \E u \in Callers : List(u)
    \/ \E u \in Callers, i \in Ids : Retrieve(u, i)
    \/ \E u \in Callers, i \in Ids : Update(u, i, AccessPayloads)
    \/ \E u \in Callers, i \in Ids : Destroy(u, i)
    \/ \E u \in Callers, i \in Ids : Confirm(u, i)
    \/ \E u \in Callers, i \in Ids : Start(u, i)
    \/ \E u \in Callers, i \in Ids : Complete(u, i, Absent)
    \/ \E u \in Callers, i \in Ids, reason \in ReasonInputs : Cancel(u, i, reason)
    \/ \E u \in Callers, i \in Ids, issue \in IssueInputs : ReportIssue(u, i, issue)
    \/ \E Q \in SUBSET Ids \ {{}} : AdminCancelAppointments(Q)
    \/ Tick

SpecAccess == Init /\ [][NextAccess]_vars

\* Creations that run statement by statement and may fail at each, and
\* requests for the rooms meanwhile.
NextMeet ==
    \/ \E u \in Users, req \in SchedCreateRequests : CreateBegin(MaxAppts, u, req)
    \/ CreateStep
    \/ CreateFail
    \/ \E u \in Callers, m \in RoomIds : MeetDetail(u, m)
    \/ \E u \in Callers, m \in RoomIds : MeetToken(u, m)
    \/ Tick

SpecMeet == Init /\ [][NextMeet]_vars

\* Two bookings by any caller with a profile: requests without notes that
\* end after they start, for any patient and doctor or none.
BookingRequests ==
    {r \in [patient : PatientUsers \cup {None},
            doctor : DoctorUsers \cup {None},
            start : Times,
            end : Times,
            notes : {Absent}] : r.end > r.start}

NextBooking ==
    \/ \E u \in Users, req \in BookingRequests : Create(MaxAppts, u, req)
    \/ Tick

SpecBooking == Init /\ [][NextBooking]_vars

\* ----------------------------------------------------------------- reviews

\* Who posts reviews in the model, and what the URL may name: a doctor, a
\* hospital, or an id of neither table.
ReviewCallers == {"p1", "d1", Anonymous}
ReviewKinds == {"doctor", "hospital"}
ReviewSubjects == {"d1", "d2", "h1"}

\* Doctor.objects.get(id=doctor_id) / Hospital.objects.get(id=hospital_id)
SubjectExists(kind, s) ==
    IF kind = "doctor" THEN s \in DoctorUsers ELSE s \in HospitalUsers

\* DoctorReview.objects.filter(user=..., doctor=...).exists() and the same
\* for hospitals.
Reviewed(R, kind, u, s) ==
    \E i \in DOMAIN R : R[i].kind = kind /\ R[i].user = u /\ R[i].subject = s

\* A review request that changes nothing but the response.
ReviewRefuse(op, code) ==
    /\ last' = Resp(op, code)
    /\ UNCHANGED <<reviewVars, apptVars, contactVars, chatVars>>

\* POST reviews/doctors/{doctor_id}/ and reviews/hospitals/{hospital_id}/ up to the end
\* of serializer.is_valid(): the permission, the subject of the URL and the
\* check that the caller has no review of it yet.
ReviewValidate(u, kind, s) ==
    /\ Len(reviewing) < MaxReviewing
    /\ IF ~IsAuthenticated(u)
       THEN ReviewRefuse("review_create", "not_authenticated")
       ELSE IF ~SubjectExists(kind, s)
       THEN ReviewRefuse("review_create", "unknown_subject")
       ELSE IF Reviewed(reviews, kind, u, s)
       THEN ReviewRefuse("review_create", "already_reviewed")
       ELSE /\ reviewing' = Append(reviewing,
                                   [kind |-> kind, user |-> u, subject |-> s])
            /\ UNCHANGED <<reviews, nextReview, last,
                           apptVars, contactVars, chatVars>>

\* The sequence without its n-th element.
Without(seq, n) == [k \in 1..(Len(seq) - 1) |-> IF k < n THEN seq[k] ELSE seq[k + 1]]

\* An INSERT that no constraint guards.
ReviewSaveUnchecked(n) ==
    /\ n \in DOMAIN reviewing
    /\ nextReview <= MaxReviews
    /\ reviews' = reviews @@ (nextReview :> reviewing[n])
    /\ nextReview' = nextReview + 1
    /\ reviewing' = Without(reviewing, n)
    /\ last' = Resp("review_create", "ok")
    /\ UNCHANGED <<apptVars, contactVars, chatVars>>

\* perform_create: serializer.save(user=request.user), the INSERT. The
\* table's unique_together makes the database refuse a second row of the
\* same user and subject (IntegrityError, answered 500).
ReviewSave(n) ==
    /\ n \in DOMAIN reviewing
    /\ nextReview <= MaxReviews
    /\ LET r == reviewing[n]
       IN  IF Reviewed(reviews, r.kind, r.user, r.subject)
           THEN /\ last' = Resp("review_create", "server_error")
                /\ UNCHANGED <<reviews, nextReview>>
           ELSE /\ reviews' = reviews @@ (nextReview :> r)
                /\ nextReview' = nextReview + 1
                /\ last' = Resp("review_create", "ok")
    /\ reviewing' = Without(reviewing, n)
    /\ UNCHANGED <<apptVars, contactVars, chatVars>>

\* DELETE reviews/doctor-reviews/{pk}/ and reviews/hospital-reviews/{pk}/:
\* the author only.
ReviewDestroy(u, i) ==
    IF ~IsAuthenticated(u) THEN ReviewRefuse("review_destroy", "not_authenticated")
    ELSE IF i \notin DOMAIN reviews THEN ReviewRefuse("review_destroy", "not_found")
    ELSE IF reviews[i].user # u THEN ReviewRefuse("review_destroy", "forbidden")
    ELSE /\ reviews' = [j \in DOMAIN reviews \ {i} |-> reviews[j]]
         /\ last' = Resp("review_destroy", "ok")
         /\ UNCHANGED <<nextReview, reviewing, apptVars, contactVars, chatVars>>

\* Reviews: creations that overlap in time, and deletions.
NextReviews ==
    \/ \E u \in ReviewCallers, kind \in ReviewKinds, s \in ReviewSubjects :
          ReviewValidate(u, kind, s)
    \/ \E n \in 1..MaxReviewing : ReviewSave(n)
    \/ \E u \in ReviewCallers, i \in 1..MaxReviews : ReviewDestroy(u, i)

SpecReviews == Init /\ [][NextReviews]_vars

\* ------------------------------------------------------ emergency contacts

\* Who manages emergency contacts in the model, and the patient a URL or a
\* body may name ("d1" is the id of no Patient row).
ContactCallers == {"p1", "p2", "a1", Anonymous}
ContactPatients == {"p1", "p2", "d1"}

\* The number of contacts a patient may have.
ContactLimit == 2

\* patient.emergency_contacts.exclude(id=...).count(); without 0 excludes
\* nothing.
ContactCount(C, patient, without) ==
    Cardinality({i \in DOMAIN C : C[i].patient = patient /\ i # without})

\* patient.user != request.user and not request.user.is_staff
MayManage(u, patient) == UserOf(patient) = u \/ u \in StaffUsers

\* A contact request that changes nothing but the response.
ContactRefuse(op, code) ==
    /\ last' = Resp(op, code)
    /\ UNCHANGED <<contactVars, apptVars, reviewVars, chatVars>>

\* POST {patient_id}/emergency-contacts/create/ up to the INSERT: the
\* serializer counts the contacts of the patient of the body, perform_create
\* takes the patient of the URL, and PatientEmergencyContact.save() runs
\* clean(), which counts the contacts of that patient. The count and the
\* INSERT are separate statements; no lock or constraint ties them.
ContactCheck(u, urlPatient, bodyPatient) ==
    /\ Len(adding) < MaxAdding
    /\ IF ~IsAuthenticated(u)
       THEN ContactRefuse("contact_create", "not_authenticated")
       ELSE IF bodyPatient \notin PatientUsers
       THEN ContactRefuse("contact_create", "bad_request")
       ELSE IF ContactCount(contacts, bodyPatient, 0) >= ContactLimit
       THEN ContactRefuse("contact_create", "bad_request")
       ELSE IF urlPatient \notin PatientUsers
       THEN ContactRefuse("contact_create", "not_found")
       ELSE IF ~MayManage(u, urlPatient)
       THEN ContactRefuse("contact_create", "forbidden")
       ELSE IF ContactCount(contacts, urlPatient, 0) >= ContactLimit
       THEN ContactRefuse("contact_create", "too_many")
       ELSE /\ adding' = Append(adding, [patient |-> urlPatient])
            /\ UNCHANGED <<contacts, nextContact, last,
                           apptVars, reviewVars, chatVars>>

\* super().save(): the INSERT of a creation that passed clean().
ContactInsert(n) ==
    /\ n \in DOMAIN adding
    /\ nextContact <= MaxContacts
    /\ contacts' = contacts @@ (nextContact :> adding[n])
    /\ nextContact' = nextContact + 1
    /\ adding' = Without(adding, n)
    /\ last' = Resp("contact_create", "ok")
    /\ UNCHANGED <<apptVars, reviewVars, chatVars>>

\* get_object(): the contact i among those of the patient of the URL, for
\* the patient and for staff.
ContactFound(u, urlPatient, i) ==
    /\ MayManage(u, urlPatient)
    /\ i \in DOMAIN contacts
    /\ contacts[i].patient = urlPatient

\* PUT / PATCH {patient_id}/emergency-contacts/{id}/: the body may name a
\* patient (None when a PATCH leaves it out); the serializer counts that
\* patient's other contacts, and clean() checks nothing for a stored row.
ContactUpdate(u, urlPatient, i, bodyPatient) ==
    IF ~IsAuthenticated(u) THEN ContactRefuse("contact_update", "not_authenticated")
    ELSE IF urlPatient \notin PatientUsers
    THEN ContactRefuse("contact_update", "not_found")
    ELSE IF ~ContactFound(u, urlPatient, i)
    THEN ContactRefuse("contact_update", "not_found")
    ELSE IF bodyPatient # None /\ bodyPatient \notin PatientUsers
    THEN ContactRefuse("contact_update", "bad_request")
    ELSE IF /\ bodyPatient # None
            /\ ContactCount(contacts, bodyPatient, i) >= ContactLimit
    THEN ContactRefuse("contact_update", "bad_request")
    ELSE /\ contacts' = [contacts EXCEPT ![i].patient =
                            IF bodyPatient = None THEN @ ELSE bodyPatient]
         /\ last' = Resp("contact_update", "ok")
         /\ UNCHANGED <<nextContact, adding, apptVars, reviewVars, chatVars>>

\* DELETE {patient_id}/emergency-contacts/{id}/
ContactDestroy(u, urlPatient, i) ==
    IF ~IsAuthenticated(u) THEN ContactRefuse("contact_destroy", "not_authenticated")
    ELSE IF urlPatient \notin PatientUsers
    THEN ContactRefuse("contact_destroy", "not_found")
    ELSE IF ~ContactFound(u, urlPatient, i)
    THEN ContactRefuse("contact_destroy", "not_found")
    ELSE /\ contacts' = [j \in DOMAIN contacts \ {i} |-> contacts[j]]
         /\ last' = Resp("contact_destroy", "ok")
         /\ UNCHANGED <<nextContact, adding, apptVars, reviewVars, chatVars>>

\* Emergency contacts: creations that overlap in time, updates, deletions.
NextContacts ==
    \/ \E u \in ContactCallers, urlPatient \in ContactPatients,
          bodyPatient \in ContactPatients :
          ContactCheck(u, urlPatient, bodyPatient)
    \/ \E n \in 1..MaxAdding : ContactInsert(n)
    \/ \E u \in ContactCallers, urlPatient \in ContactPatients,
          i \in 1..MaxContacts, bodyPatient \in ContactPatients \cup {None} :
          ContactUpdate(u, urlPatient, i, bodyPatient)
    \/ \E u \in ContactCallers, urlPatient \in ContactPatients,
          i \in 1..MaxContacts : ContactDestroy(u, urlPatient, i)

SpecContacts == Init /\ [][NextContacts]_vars

\* -------------------------------------------------------------------- chat

\* The users who hold access tokens in the model. A token is named by the
\* user it was issued to; "bad" is a token AccessToken() rejects (forged,
\* expired, or of a deleted user) and None is a frame without a token.
ChatUsers == {"p1", "d1"}
ChatTokens == ChatUsers \cup {"bad", None}

\* The frames a client may send: an auth frame with or without a token, a
\* chat message with or without its content, a typing indicator.
WsFrames ==
    {[type |-> "auth", token |-> t, content |-> FALSE] : t \in ChatTokens}
    \cup {[type |-> "chat_message", token |-> None, content |-> b] :
             b \in BOOLEAN}
    \cup {[type |-> "typing", token |-> None, content |-> FALSE]}

\* ChatConsumer.authenticate_token: the token names a stored user.
authenticate_token(token) == token \in ChatUsers

\* user.is_authenticated of the consumer's user (None before any token,
\* AnonymousUser after a rejected one).
UserIsAuthenticated(user) == user \notin {None, Anonymous}

\* ChatConsumer.update_user_status
update_user_status(O, user, value) ==
    IF UserIsAuthenticated(user) THEN [O EXCEPT ![user] = value] ELSE O

\* ChatConsumer.connect: a new consumer accepts the socket and joins
\* nothing.
WsConnect(c) ==
    /\ ~conns[c].open
    /\ conns' = [conns EXCEPT ![c] = [NewConsumer EXCEPT !.open = TRUE]]
    /\ UNCHANGED <<group, messages, casts, online,
                   last, apptVars, reviewVars, contactVars>>

\* ChatConsumer.disconnect of an open connection.
WsDisconnect(c) ==
    /\ conns[c].open
    /\ conns' = [conns EXCEPT ![c].open = FALSE]
    /\ group' = IF conns[c].authenticated THEN group \ {c} ELSE group
    /\ online' = update_user_status(online, conns[c].user, FALSE)
    /\ UNCHANGED <<messages, casts, last, apptVars, reviewVars, contactVars>>

\* handle_chat_message and handle_typing_indicator of an authenticated
\* consumer; any other frame is dropped.
WsHandle(c, f) ==
    /\ UNCHANGED <<conns, group, online>>
    /\ IF f.type = "chat_message" /\ f.content
       THEN /\ messages' = Append(messages, conns[c].user)
            /\ casts' = Append(casts, [type |-> "chat_message",
                                       user |-> conns[c].user])
       ELSE IF f.type = "typing"
       THEN /\ casts' = Append(casts, [type |-> "typing_indicator",
                                       user |-> conns[c].user])
            /\ UNCHANGED messages
       ELSE UNCHANGED <<messages, casts>>

\* A consumer that handles every frame of an open socket.
WsReceiveOpen(c, f) ==
    /\ conns[c].open
    /\ Len(casts) < MaxCasts
    /\ WsHandle(c, f)
    /\ UNCHANGED <<last, apptVars, reviewVars, contactVars>>

\* ChatConsumer.receive: one frame from the client of connection c. close()
\* after a failed authentication ends the connection; the disconnect()
\* that follows finds nothing to leave and no user to mark.
WsReceive(c, f) ==
    /\ conns[c].open
    /\ Len(casts) < MaxCasts
    /\ IF ~conns[c].authenticated
       THEN IF f.type = "auth"
            THEN IF f.token # None /\ authenticate_token(f.token)
                 THEN /\ conns' = [conns EXCEPT ![c].authenticated = TRUE,
                                                ![c].user = f.token,
                                                ![c].reply = "auth_success"]
                      /\ group' = group \cup {c}
                      /\ online' = update_user_status(online, f.token, TRUE)
                      /\ UNCHANGED <<messages, casts>>
                 ELSE /\ conns' = [conns EXCEPT
                                      ![c].user = IF f.token = None THEN @
                                                  ELSE Anonymous,
                                      ![c].reply = "auth_failed",
                                      ![c].open = FALSE]
                      /\ UNCHANGED <<group, messages, casts, online>>
            ELSE /\ conns' = [conns EXCEPT ![c].reply = "auth_required"]
                 /\ UNCHANGED <<group, messages, casts, online>>
       ELSE WsHandle(c, f)
    /\ UNCHANGED <<last, apptVars, reviewVars, contactVars>>

\* The chat room: connections open, authenticate, talk and close in any
\* order.
NextChat ==
    \/ \E c \in Conns : WsConnect(c)
    \/ \E c \in Conns, f \in WsFrames : WsReceive(c, f)
    \/ \E c \in Conns : WsDisconnect(c)

SpecChat == Init /\ [][NextChat]_vars

\* ------------------------------------------------------------------ claims

ACTIVE == {SCHEDULED, CONFIRMED, IN_PROGRESS}
TERMINAL == {COMPLETED, CANCELLED, NO_SHOW, RESCHEDULED}

\* A step that answers a request of operation op (every handler leaves the
\* clock alone and names itself in the response).
Handled(op) == last'.op = op /\ now' = now

\* Half-open intervals [s1, e1) and [s2, e2) share an instant.
Intersect(s1, e1, s2, e2) == s1 < e2 /\ s2 < e1

\* C1: no two distinct appointments of one doctor that are both scheduled,
\* confirmed or in progress have overlapping intervals [start, end).
C1_NoDoubleBooking ==
    \A i, j \in DOMAIN appts :
        (/\ i # j
         /\ appts[i].doctor = appts[j].doctor
         /\ appts[i].status \in ACTIVE
         /\ appts[j].status \in ACTIVE)
        => ~Intersect(appts[i].start, appts[i].end, appts[j].start, appts[j].end)

\* C2: of two creation requests for one doctor with overlapping intervals
\* that run concurrently, at most one passes the overlap check and is
\* inserted: two such requests are never both beyond the check, whether
\* waiting to be saved or saved.
C2_CheckAndInsertAtomic ==
    /\ \A r1, r2 \in pending :
           (r1 # r2 /\ r1.data.doctor = r2.data.doctor)
           => ~Intersect(r1.data.start, r1.data.end, r2.data.start, r2.data.end)
    /\ \A r \in pending, i \in DOMAIN appts :
           (r.data.doctor = appts[i].doctor /\ appts[i].status \in ACTIVE)
           => ~Intersect(r.data.start, r.data.end, appts[i].start, appts[i].end)
    /\ \A i, j \in DOMAIN appts :
           (i # j /\ appts[i].doctor = appts[j].doctor)
           => ~Intersect(appts[i].start, appts[i].end, appts[j].start, appts[j].end)

\* A creation request that passes every check before the availability check:
\* the references its caller must supply are there, it ends after it starts
\* and does not start in the past.
OtherwiseValid(u, req) ==
    /\ Role(u) = "doctor" => req.patient # None
    /\ Role(u) = "patient" => req.doctor # None
    /\ Role(u) \notin {"doctor", "patient"} => (req.patient # None /\ req.doctor # None)
    /\ req.end > req.start
    /\ req.start >= now

\* The doctor a creation request books.
Booked(u, req) == IF Role(u) = "doctor" THEN u ELSE req.doctor

\* Doctor d has a scheduled, confirmed or in-progress appointment with
\* existing.start < e and existing.end > s.
Blocked(d, s, e) ==
    \E i \in DOMAIN appts :
        /\ appts[i].doctor = d
        /\ appts[i].status \in ACTIVE
        /\ appts[i].start < e /\ appts[i].end > s

C3_Verdict ==
    \A u \in Users, req \in SchedCreateRequests :
        OtherwiseValid(u, req)
        => ValidateCreate(appts, now, u, req) =
              IF Blocked(Booked(u, req), req.start, req.end)
              THEN "doctor_unavailable" ELSE "ok"

C3_Effect ==
    Handled("create")
    => IF last'.code = "ok"
       THEN /\ DOMAIN appts' = DOMAIN appts \cup {nextId}
            /\ \A i \in DOMAIN appts : appts'[i] = appts[i]
            /\ appts'[nextId].status = SCHEDULED
            /\ ~Blocked(appts'[nextId].doctor, appts'[nextId].start, appts'[nextId].end)
       ELSE appts' = appts

\* C3: an otherwise valid creation request for doctor D and [s, e) is refused
\* as "doctor unavailable" exactly when D has a scheduled, confirmed or
\* in-progress appointment with start < e and end > s, and is accepted
\* otherwise (an appointment that only touches [s, e), or one in another
\* status, does not block); a refused request stores nothing, an accepted
\* one stores one scheduled appointment.
C3_UnavailableIffOverlap == []C3_Verdict /\ [][C3_Effect]_vars

\* A creation was refused because the doctor's confirmed appointment overlaps.
C3_Witness ==
    /\ last = Resp("create", "doctor_unavailable")
    /\ \E i \in DOMAIN appts : appts[i].status = CONFIRMED /\ appts[i].end > appts[i].start

\* C4: every stored appointment ends after it starts, after every create and
\* every generic update.
C4_EndAfterStart ==
    \A i \in DOMAIN appts : appts[i].end > appts[i].start

\* The transition table of the specification; the terminal statuses have no
\* next state.
TransitionTable(s) ==
    IF s = SCHEDULED THEN {CONFIRMED, CANCELLED, RESCHEDULED}
    ELSE IF s = CONFIRMED THEN {IN_PROGRESS, CANCELLED, NO_SHOW}
    ELSE IF s = IN_PROGRESS THEN {COMPLETED}
    ELSE {}

\* C5: a generic update changes the status of an appointment only along the
\* transition table; from completed, cancelled, no_show and rescheduled it
\* changes it to nothing.
C5_UpdateFollowsTable ==
    [][(last'.op = "update" /\ last'.code = "ok")
       => \A i \in DOMAIN appts \cap DOMAIN appts' :
              appts'[i].status # appts[i].status
              => appts'[i].status \in TransitionTable(appts[i].status)]_vars

\* C6: once the status of an appointment is completed, cancelled, no_show or
\* rescheduled, no operation changes it.
C6_TerminalIsFinal ==
    [][\A i \in DOMAIN appts \cap DOMAIN appts' :
          appts[i].status \in TERMINAL => appts'[i].status = appts[i].status]_vars

\* Row i of the table after only its status became s.
WithStatus(i, s) == [appts EXCEPT ![i].status = s]

C7_Step ==
    Handled("confirm")
    => \A u \in Users, i \in Ids :
          Confirm(u, i)
          => /\ last'.code = "ok"
                => /\ i \in DOMAIN appts
                   /\ appts[i].status = SCHEDULED
                   /\ appts' = WithStatus(i, CONFIRMED)
             /\ last'.code # "ok" => appts' = appts
             /\ (Found(u, i) /\ appts[i].status = SCHEDULED) => last'.code = "ok"

\* C7: confirm succeeds only on a scheduled appointment, which becomes
\* confirmed (and it does succeed there for a caller whose scope holds the
\* appointment); on any other status it fails and changes nothing, so a
\* second confirm fails and the status stays confirmed.
C7_ConfirmOnlyFromScheduled == [][C7_Step]_vars

\* A confirm was refused on an appointment that is already confirmed.
C7_Witness ==
    /\ last = Resp("confirm", "bad_status")
    /\ \E i \in DOMAIN appts : appts[i].status = CONFIRMED

C8_Step ==
    Handled("start")
    => \A u \in Users, i \in Ids :
          Start(u, i)
          => /\ last'.code = "ok"
                => /\ i \in DOMAIN appts
                   /\ appts[i].status = CONFIRMED
                   /\ Role(u) = "doctor" /\ appts[i].doctor = u
                   /\ appts' = WithStatus(i, IN_PROGRESS)
             /\ last'.code # "ok" => appts' = appts
             /\ (/\ i \in DOMAIN appts
                 /\ appts[i].status = CONFIRMED
                 /\ Role(u) = "doctor" /\ appts[i].doctor = u) => last'.code = "ok"

\* C8: start makes a confirmed appointment in progress when the caller is
\* its assigned doctor; called by anyone else, or on another status, it
\* fails and changes nothing.
C8_StartByAssignedDoctor == [][C8_Step]_vars

\* The assigned doctor's start was refused on a scheduled appointment.
C8_Witness ==
    /\ last = Resp("start", "bad_status")
    /\ \E i \in DOMAIN appts : appts[i].status = SCHEDULED

\* old_notes + blank line + notes, notes alone, or old_notes untouched.
ExpectedNotes(old, notes) ==
    IF notes = Absent \/ notes = <<>> THEN old
    ELSE IF old = Null \/ old = <<>> THEN notes
    ELSE old \o <<"\n", "\n">> \o notes

C9_Step ==
    Handled("complete")
    => \A u \in Users, i \in Ids, notes \in NotesInputs :
          Complete(u, i, notes)
          => /\ last'.code = "ok"
                => /\ i \in DOMAIN appts
                   /\ appts[i].status = IN_PROGRESS
                   /\ Role(u) = "doctor" /\ appts[i].doctor = u
                   /\ appts' = [appts EXCEPT
                                   ![i].status = COMPLETED,
                                   ![i].notes = ExpectedNotes(appts[i].notes, notes)]
             /\ last'.code # "ok" => appts' = appts
             /\ (/\ i \in DOMAIN appts
                 /\ appts[i].status = IN_PROGRESS
                 /\ Role(u) = "doctor" /\ appts[i].doctor = u) => last'.code = "ok"

\* C9: complete succeeds only on an in-progress appointment called by its
\* assigned doctor; the status becomes completed and the notes become the
\* old notes, a blank line and the supplied notes (the supplied notes alone
\* when there were none, the old notes when none are supplied); a failed
\* complete changes nothing.
C9_CompleteAppendsNotes == [][C9_Step]_vars

\* A complete appended notes to the notes the appointment already had.
C9_Witness ==
    /\ last = Resp("complete", "ok")
    /\ \E i \in DOMAIN appts :
           /\ appts[i].status = COMPLETED
           /\ appts[i].notes = <<"n", "\n", "\n", "n">>

C10_Step ==
    Handled("cancel")
    => \A u \in Users, i \in Ids, reason \in ReasonInputs :
          Cancel(u, i, reason)
          => /\ last'.code = "ok"
                => /\ i \in DOMAIN appts
                   /\ appts[i].status \in {SCHEDULED, CONFIRMED}
                   /\ ~(appts[i].end < now)
                   /\ reason # Absent /\ reason # <<>>
                   /\ appts' = [appts EXCEPT
                                   ![i].status = CANCELLED,
                                   ![i].cancellation_reason = reason,
                                   ![i].cancelled_by = Role(u)]
             /\ last'.code # "ok" => appts' = appts
             /\ (/\ Found(u, i)
                 /\ appts[i].status \in {SCHEDULED, CONFIRMED}
                 /\ ~(appts[i].end < now)
                 /\ reason # Absent /\ reason # <<>>) => last'.code = "ok"

\* C10: cancel succeeds only on a scheduled or confirmed appointment whose
\* end time has not passed and with a cancellation reason; the status
\* becomes cancelled and the reason and the caller's role are stored; when
\* the appointment cannot be cancelled or the reason is missing, the call is
\* refused and changes nothing.
C10_CancelNeedsCanCancel == [][C10_Step]_vars

\* A cancel with a reason was refused on a scheduled appointment whose end
\* time has passed.
C10_Witness ==
    /\ last = Resp("cancel", "cannot_cancel")
    /\ \E i \in DOMAIN appts : appts[i].status = SCHEDULED /\ appts[i].end < now

\* C11: in every state the cancellation reason and the cancelling actor of
\* an appointment are both set or both unset, they are set only on a
\* cancelled appointment, and a cancelled appointment has both (whichever
\* path cancelled it: the cancel action, a generic update to cancelled, the
\* bulk cancel of the admin site).
C11_CancellationFieldsTogether ==
    \A i \in DOMAIN appts :
        /\ appts[i].cancellation_reason # Null <=> appts[i].cancelled_by # None
        /\ appts[i].cancelled_by # None => appts[i].status = CANCELLED
        /\ appts[i].status = CANCELLED => appts[i].cancelled_by # None

\* C12: a cancelling actor that is set is one of patient, doctor and system,
\* whatever the role of the caller that cancelled.
C12_CancelledByEnumerated ==
    \A i \in DOMAIN appts : appts[i].cancelled_by \in CancelledBy \cup {None}

\* The step that answers a creation 201: the last statement of
\* Appointment.save() has run.
Created == creating.step # "idle" /\ creating'.step = "idle" /\ last'.code = "ok"

C13_Step ==
    Created
    => LET i == creating.id
           a == appts'[i]
       IN  /\ a.status = SCHEDULED
           /\ appts[i].meet = NoMeet
           /\ a.meet \in DOMAIN meets'
           /\ \A j \in DOMAIN appts' : j # i => appts'[j].meet # a.meet
           /\ Len(meets'[a.meet].members) = 2
           /\ Members(meets'[a.meet]) = {a.doctor, a.patient}

\* C13: every creation that is answered 201 leaves a scheduled appointment
\* that holds a room created for it (it had none, and no other appointment
\* holds that room), and the membership of the room has exactly two rows, the
\* doctor's and the patient's user.
C13_CreatedWithRoom == [][C13_Step]_vars

\* A second appointment was created, with a room of its own.
C13_Witness ==
    /\ last = Resp("create", "ok")
    /\ creating = Idle
    /\ \E i, j \in DOMAIN appts :
           /\ i # j
           /\ appts[i].meet # NoMeet /\ appts[j].meet # NoMeet
           /\ appts[i].meet # appts[j].meet
           /\ Members(meets[appts[j].meet]) = {appts[j].doctor, appts[j].patient}

\* Every appointment that is not being created has its room (each was
\* created scheduled), and there are no more rooms than appointments.
C14_RoomIffActive ==
    /\ \A i \in DOMAIN appts : i # creating.id => appts[i].meet # NoMeet
    /\ Len(meets) <= nextId - 1

\* A room that is set stays the room of the appointment.
C14_RoomKept ==
    \A i \in DOMAIN appts \cap DOMAIN appts' :
        appts[i].meet # NoMeet => appts'[i].meet = appts[i].meet

\* C14: the room of an appointment is set at most once: an appointment has
\* its room exactly when it has ever been scheduled or confirmed (every
\* appointment of the API was created scheduled), no operation clears or
\* replaces a room that is set, and no appointment gets a second room.
C14_RoomSetOnce == []C14_RoomIffActive /\ [][C14_RoomKept]_vars

\* C15: creation is all-or-nothing: whenever no creation is running, every
\* stored appointment in status scheduled has its room, and the members of
\* the room are the doctor's and the patient's user; a creation that failed
\* left no appointment behind.
C15_CreationAllOrNothing ==
    creating = Idle
    => \A i \in DOMAIN appts :
           appts[i].status = SCHEDULED
           => /\ appts[i].meet \in DOMAIN meets
              /\ Members(meets[appts[i].meet]) = {appts[i].doctor, appts[i].patient}

\* The request lacks a reference its caller must supply.
RefsMissing(u, req) ==
    IF Role(u) = "doctor" THEN req.patient = None
    ELSE IF Role(u) = "patient" THEN req.doctor = None
    ELSE req.patient = None \/ req.doctor = None

RefErrors == {"one_required", "patient_required", "doctor_required", "both_required"}

C16_Step ==
    Handled("create")
    => \A u \in Users, req \in CreateRequests :
          Create(MaxLife, u, req)
          => /\ RefsMissing(u, req) => (last'.code \in RefErrors /\ appts' = appts)
             /\ ~RefsMissing(u, req) => last'.code \notin RefErrors
             /\ (/\ ~RefsMissing(u, req)
                 /\ req.end > req.start
                 /\ req.start >= now
                 /\ ~Blocked(Booked(u, req), req.start, req.end))
                => /\ last'.code = "ok"
                   /\ appts'[nextId].doctor =
                          IF Role(u) = "doctor" THEN u ELSE req.doctor
                   /\ appts'[nextId].patient =
                          IF Role(u) = "patient" THEN u ELSE req.patient

\* C16: a doctor may omit the doctor and a patient the patient of a creation
\* request, and the appointment then gets the caller's own profile; a caller
\* of another role must supply both; a request that lacks a reference its
\* caller must supply is refused with a validation error and stores nothing;
\* a request with the references it needs is never refused for them, and
\* succeeds when it is otherwise valid.
C16_ReferencesByRole == [][C16_Step]_vars

\* A hospital or admin caller left a reference out and nothing was stored.
C16_Witness ==
    /\ last = Resp("create", "both_required")
    /\ appts = <<>>

C17_Step ==
    Handled("create")
    => \A u \in Users, req \in CreateRequests :
          Create(MaxLife, u, req)
          => /\ req.start < now
                => /\ last'.code \in RefErrors \cup {"end_before_start", "in_the_past"}
                   /\ appts' = appts
             /\ (~RefsMissing(u, req) /\ req.end > req.start /\ req.start < now)
                => last'.code = "in_the_past"
             /\ last'.code = "ok" => appts'[nextId].start >= now

\* C17: a creation request that starts before the server clock is refused
\* with a validation error (that of the start time when nothing else is
\* wrong with it) and stores nothing; an appointment that is created starts
\* at or after the clock of its validation.
C17_NoStartInPast == [][C17_Step]_vars

\* A request that starts before the clock was refused for that.
C17_Witness ==
    /\ last = Resp("create", "in_the_past")
    /\ now > 0
    /\ appts = <<>>

\* The scope of a caller, by the profile it owns: a doctor's own
\* appointments, a patient's own, those of the doctors of a hospital, all for
\* an admin, none for anyone else.
ScopeOf(u, a) ==
    \/ u \in DoctorUsers /\ a.doctor = u
    \/ u \in PatientUsers /\ a.patient = u
    \/ u \in HospitalUsers /\ HospitalOf(a.doctor) = u
    \/ u \in AdminUsers

C18_Step ==
    Handled("list")
    => \A u \in Callers :
          List(u)
          => /\ appts' = appts
             /\ IF u = Anonymous
                THEN last'.code = "not_authenticated" /\ last'.rows = {}
                ELSE /\ last'.code = "ok"
                     /\ last'.rows = {i \in DOMAIN appts : ScopeOf(u, appts[i])}

\* C18: a list returns exactly the appointments of the caller's scope (a
\* doctor's own, a patient's own, those of a hospital's doctors, all for an
\* admin, none for a caller without profile) and changes nothing; a caller
\* without credentials is refused.
C18_ListWithinScope == [][C18_Step]_vars

\* A list came back empty although an appointment is stored.
C18_Witness ==
    /\ last = [op |-> "list", code |-> "ok", rows |-> {}]
    /\ appts # <<>>

\* A step that answers a request of caller u on appointment i.
OnOne(u, i) ==
    \/ Handled("retrieve") /\ Retrieve(u, i)
    \/ Handled("update") /\ Update(u, i, AccessPayloads)
    \/ Handled("destroy") /\ Destroy(u, i)
    \/ Handled("confirm") /\ Confirm(u, i)
    \/ Handled("start") /\ Start(u, i)
    \/ Handled("complete") /\ Complete(u, i, Absent)
    \/ Handled("cancel") /\ \E reason \in ReasonInputs : Cancel(u, i, reason)
    \/ Handled("report_issue") /\ \E issue \in IssueInputs : ReportIssue(u, i, issue)

C19_Step ==
    \A u \in Users \cup OtherUsers, i \in DOMAIN appts :
        (~ScopeOf(u, appts[i]) /\ OnOne(u, i))
        => /\ last'.code \in {"not_found", "forbidden"}
           /\ appts' = appts

\* C19: retrieve, update, delete, confirm, start, complete, cancel and
\* report-issue of a stored appointment by an authenticated caller whose
\* scope does not hold it are answered not-found or forbidden and leave the
\* table as it was.
C19_OutOfScopeRefused == [][C19_Step]_vars

\* A cancel of a stored, scheduled, not yet past appointment was answered
\* not-found.
C19_Witness ==
    /\ last = Resp("cancel", "not_found")
    /\ \E i \in DOMAIN appts : appts[i].status = SCHEDULED /\ appts[i].end >= now

C20_Step ==
    (Handled("update") /\ last'.code \in {"ok", "bad_transition"})
    => \A u \in DoctorUsers, i \in DOMAIN appts :
          Found(u, i)
          => \A p \in AccessPayloads :
                Update(u, i, {p})
                => IF p.status = None
                   THEN /\ last'.code = "ok"
                        /\ appts'[i].status = appts[i].status
                        /\ p.technical_issues_reported # Absent
                           => appts'[i].technical_issues_reported =
                                 p.technical_issues_reported
                   ELSE last'.code = "bad_transition"
                        <=> (/\ appts[i].status \in ACTIVE
                             /\ p.status \notin TransitionTable(appts[i].status))

\* C20: an update of an appointment by its doctor that carries no status is
\* accepted in every status, the terminal ones included, writes the fields
\* it carries and leaves the status as it was; the transition check decides
\* only about updates that carry a status.
C20_CheckOnlyWithStatus == [][C20_Step]_vars

\* An update wrote the technical issues of an appointment that is cancelled.
C20_Witness ==
    /\ last = Resp("update", "ok")
    /\ \E i \in DOMAIN appts :
           /\ appts[i].status = CANCELLED
           /\ appts[i].cancellation_reason = <<"r">>
           /\ appts[i].cancelled_by = "patient"
           /\ appts[i].technical_issues_reported = <<"i">>

\* old text + blank line + issue, or the issue alone.
ExpectedIssues(old, issue) ==
    IF old = Null \/ old = <<>> THEN issue
    ELSE old \o <<"\n", "\n">> \o issue

C21_Step ==
    Handled("report_issue")
    => \A u \in Callers, i \in Ids, issue \in IssueInputs :
          ReportIssue(u, i, issue)
          => /\ last'.code = "ok"
                => /\ i \in DOMAIN appts
                   /\ issue # Absent /\ issue # <<>>
                   /\ appts' = [appts EXCEPT
                                   ![i].technical_issues_reported =
                                       ExpectedIssues(
                                           appts[i].technical_issues_reported, issue)]
             /\ last'.code # "ok" => appts' = appts
             /\ (issue = Absent \/ issue = <<>>) => last'.code # "ok"
             /\ (IsAuthenticated(u) /\ Found(u, i) /\ issue # Absent /\ issue # <<>>)
                => last'.code = "ok"

\* C21: report-issue with an issue text sets the technical issues of the
\* appointment to the old text, a blank line and the issue (the issue alone
\* when there was no text) and leaves the status and every other field and
\* row as they were; without issue text, or with an empty one, it fails and
\* changes nothing.
C21_ReportIssueAppends == [][C21_Step]_vars

\* A second issue was appended to the first.
C21_Witness ==
    /\ last = Resp("report_issue", "ok")
    /\ \E i \in DOMAIN appts :
           appts[i].technical_issues_reported = <<"i", "\n", "\n", "i">>

\* Text old (null counts as empty) is a prefix of text new.
IsPrefix(old, new) ==
    \/ old = Null
    \/ /\ new # Null
       /\ Len(old) <= Len(new)
       /\ SubSeq(new, 1, Len(old)) = old

\* C22: the technical issues of an appointment only grow: in every step the
\* old text is a prefix of the new one, whichever operation is served.
C22_IssuesAppendOnly ==
    [][\A i \in DOMAIN appts \cap DOMAIN appts' :
          IsPrefix(appts[i].technical_issues_reported,
                   appts'[i].technical_issues_reported)]_vars

\* C23: an appointment that is stored stays stored, whichever operation is
\* served and whoever calls it.
C23_NeverDeleted ==
    [][DOMAIN appts \subseteq DOMAIN appts']_vars

\* C25: update and destroy of a stored appointment are forbidden exactly to
\* the callers that are neither doctor nor staff, and a forbidden request
\* changes nothing.
C25_DoctorsAndStaffWrite ==
    [][\A u \in Users, i \in DOMAIN appts :
          (\/ Handled("update") /\ Update(u, i, AccessPayloads)
           \/ Handled("destroy") /\ Destroy(u, i))
          => /\ last'.code = "forbidden" <=> u \notin DoctorUsers \cup StaffUsers
             /\ last'.code = "forbidden" => appts' = appts]_vars

C27_Step ==
    Handled("create")
    => \A u \in DoctorUsers \cup PatientUsers, req \in BookingRequests :
          Create(MaxAppts, u, req)
          => /\ (last'.code = "ok" /\ u \in DoctorUsers)
                => /\ appts'[nextId].doctor = u
                   /\ appts'[nextId].patient = req.patient
             /\ (last'.code = "ok" /\ u \in PatientUsers)
                => /\ appts'[nextId].patient = u
                   /\ appts'[nextId].doctor = req.doctor
             /\ (u \in DoctorUsers /\ req.patient # None /\ req.start >= now)
                => IF Blocked(u, req.start, req.end)
                   THEN last'.code = "doctor_unavailable"
                   ELSE last'.code = "ok"

\* C27: an appointment created by a doctor has the caller's own profile as
\* its doctor, whatever doctor the request names, and one created by a
\* patient has the caller's own profile as its patient; the availability of
\* a doctor caller's request is decided by the caller's own appointments, not
\* by those of the doctor the request names.
C27_OwnProfileStored == [][C27_Step]_vars

\* Both doctors have an appointment at the same time.
C27_Witness ==
    /\ last = Resp("create", "ok")
    /\ \E i, j \in DOMAIN appts :
           /\ appts[i].doctor = "d1" /\ appts[j].doctor = "d2"
           /\ Intersect(appts[i].start, appts[i].end, appts[j].start, appts[j].end)

\* The room stored on an appointment has the doctor's and the patient's user
\* as its members, and nobody else.
C30_Members ==
    \A i \in DOMAIN appts :
        appts[i].meet # NoMeet
        => /\ appts[i].meet \in DOMAIN meets
           /\ Members(meets[appts[i].meet]) = {appts[i].doctor, appts[i].patient}

\* User u is the doctor or the patient of an appointment that holds room m.
PartyOf(u, m) ==
    \E i \in DOMAIN appts :
        appts[i].meet = m /\ u \in {appts[i].doctor, appts[i].patient}

C30_Step ==
    (Handled("meet_token") \/ Handled("meet_detail"))
    => \A u \in Callers, m \in RoomIds :
          (MeetToken(u, m) \/ MeetDetail(u, m))
          => /\ appts' = appts /\ meets' = meets
             /\ last'.code = "ok"
                => /\ u \in Users
                   /\ m \in DOMAIN meets
                   /\ \A i \in DOMAIN appts :
                          appts[i].meet = m
                          => u \in {appts[i].doctor, appts[i].patient}
             /\ (IsAuthenticated(u) /\ m \notin DOMAIN meets)
                => last'.code = "not_found"
             /\ (IsAuthenticated(u) /\ m \in DOMAIN meets /\ u \notin Members(meets[m]))
                => last'.code = "forbidden"
             /\ PartyOf(u, m) => last'.code = "ok"

C24_Step ==
    /\ \A u \in ReviewCallers, kind \in ReviewKinds, s \in ReviewSubjects :
          (Reviewed(reviews, kind, u, s) /\ ReviewValidate(u, kind, s))
              => /\ reviews' = reviews
                 /\ reviewing' = reviewing
                 /\ last' = Resp("review_create", "already_reviewed")
    /\ \A n \in DOMAIN reviewing :
          (/\ Reviewed(reviews, reviewing[n].kind, reviewing[n].user,
                       reviewing[n].subject)
           /\ ReviewSave(n))
              => /\ reviews' = reviews
                 /\ last' = Resp("review_create", "server_error")

C24_OnePerPair ==
    \A i, j \in DOMAIN reviews :
        (/\ reviews[i].kind = reviews[j].kind
         /\ reviews[i].user = reviews[j].user
         /\ reviews[i].subject = reviews[j].subject) => i = j

C24_OneReviewPerPair == []C24_OnePerPair /\ [][C24_Step]_vars

\* The second of two creations that ran side by side was refused by the
\* table, and the first one's review is stored.
C24_Witness ==
    /\ last = Resp("review_create", "server_error")
    /\ \E i \in DOMAIN reviews : reviews[i].user = "p1" /\ reviews[i].subject = "d1"
    /\ Cardinality(DOMAIN reviews) = 1

\* C26: each patient has at most 2 emergency contacts.
C26_AtMostTwoContacts ==
    \A patient \in PatientUsers :
        ContactCount(contacts, patient, 0) <= ContactLimit

\* C28: a chat_message or typing frame received before a successful auth
\* frame is answered auth_required and is neither stored nor sent to the
\* room; an auth frame with a missing or rejected token is answered
\* auth_failed and closes the connection outside the group; a connection
\* enters the group only by an auth frame with an accepted token, and the
\* group holds only open authenticated connections.
C28_Step ==
    /\ \A c \in Conns, f \in WsFrames :
          (~conns[c].authenticated /\ WsReceive(c, f)) =>
              /\ messages' = messages
              /\ casts' = casts
              /\ f.type # "auth" =>
                    /\ conns'[c].reply = "auth_required"
                    /\ group' = group
              /\ (f.type = "auth" /\ f.token \notin ChatUsers) =>
                    /\ conns'[c].reply = "auth_failed"
                    /\ ~conns'[c].open
                    /\ ~conns'[c].authenticated
                    /\ group' = group
              /\ (f.type = "auth" /\ f.token \in ChatUsers) =>
                    /\ conns'[c].reply = "auth_success"
                    /\ conns'[c].user = f.token
                    /\ group' = group \cup {c}
    /\ \A c \in group' \ group :
          /\ conns'[c].authenticated
          /\ conns'[c].reply = "auth_success"
    /\ (messages' # messages \/ casts' # casts) =>
          \E c \in group : /\ conns[c].authenticated
                           /\ casts'[Len(casts')].user = conns[c].user

C28_GroupAuthenticated ==
    \A c \in group : /\ conns[c].open
                     /\ conns[c].authenticated
                     /\ conns[c].user \in ChatUsers

C28_NothingBeforeAuth == []C28_GroupAuthenticated /\ [][C28_Step]_vars

\* One connection was told to authenticate first, another was closed after
\* a rejected token; nothing was stored or sent and nobody is in the group.
C28_Witness ==
    /\ conns["c1"].open /\ conns["c1"].reply = "auth_required"
    /\ ~conns["c2"].open /\ conns["c2"].reply = "auth_failed"
    /\ conns["c2"].user = Anonymous
    /\ group = {} /\ messages = <<>> /\ casts = <<>>

\* C29: a user is marked online exactly while one of the user's
\* authenticated connections is open.
C29_OnlineWhileConnected ==
    \A u \in ChatUsers :
        online[u] <=> \E c \in Conns : /\ conns[c].open
                                       /\ conns[c].authenticated
                                       /\ conns[c].user = u
====
